---- MODULE Spec2Model ----
(***************************************************************************)
(* bdk-reserves-web: the /proof endpoint (check_proof), the verification   *)
(* pipeline (handle_ext_reserves, get_outpoints_for_address), the two      *)
(* process-wide prometheus counters and the process start-up (main).       *)
(*                                                                         *)
(* The Electrum servers are the environment: each keeps a chain tip that   *)
(* may advance at any time, and any call to a server may fail.  The crates *)
(* the program calls (base64, bitcoin's PSBT deserializer and address      *)
(* parser, bdk_reserves::verify_proof) are not part of the repository;     *)
(* they are modelled from the specification text.                          *)
(***************************************************************************)
EXTENDS Integers, Sequences, FiniteSets, TLC

\* ------------------------------------------------------------------ bounds
MaxAddrs == 2
MaxInputs == 2
MaxHeight == 5
NumRequests == 2

\* -------------------------------------------------------- program constants
\* check_proof passes 3 as `confirmations`.
Confirmations == 3
\* usize arithmetic wraps modulo the word size when overflow checks are off.
\* The target's word is 64 bits; the model keeps the wrap-around with a
\* narrower word, far above every height of the model.
UsizeModulus == 2 ^ 16
UsizeMax == UsizeModulus - 1

\* ------------------------------------------------------------ value helpers
RECURSIVE SeqsUpTo(_, _)
SeqsUpTo(S, n) ==
    IF n = 0 THEN {<<>>}
    ELSE LET shorter == SeqsUpTo(S, n - 1)
         IN  shorter \cup {Append(s, x) : s \in {t \in shorter : Len(t) = n - 1}, x \in S}

RECURSIVE Flatten(_)
Flatten(ss) == IF ss = <<>> THEN <<>> ELSE Head(ss) \o Flatten(Tail(ss))

Min(S) == CHOOSE x \in S : \A y \in S : x <= y

\* ------------------------------------------------------------------- chain
Networks == {"Testnet", "Bitcoin"}

Outpoint(txid, vout) == [txid |-> txid, vout |-> vout]
TxOut(value, script) == [value |-> value, script_pubkey |-> script]

\* The transactions each server knows, by id: the sequence of their outputs.
Transactions ==
    [ta |-> <<TxOut(5, "sT"), TxOut(7, "sT")>>,
     tb |-> <<TxOut(11, "sM")>>]

\* What script_list_unspent answers, per network and script: tx_hash, tx_pos
\* and confirmation height (0: in the mempool).  The Bitcoin server's second
\* entry names an output its transaction does not have.  A script is the
\* same on both networks: the Testnet server knows an output of sM too.
Unspent(network, script) ==
    IF network = "Testnet" /\ script = "sT" THEN
        << [tx_hash |-> "ta", tx_pos |-> 0, height |-> 1],
           [tx_hash |-> "ta", tx_pos |-> 1, height |-> 2],
           [tx_hash |-> "tb", tx_pos |-> 0, height |-> 0] >>
    ELSE IF network = "Bitcoin" /\ script = "sM" THEN
        << [tx_hash |-> "tb", tx_pos |-> 0, height |-> 1],
           [tx_hash |-> "tb", tx_pos |-> 1, height |-> 2] >>
    ELSE IF network = "Testnet" /\ script = "sM" THEN
        << [tx_hash |-> "tb", tx_pos |-> 0, height |-> 1] >>
    ELSE <<>>

\* --------------------------------------------------------- request inputs
Messages == {"m1", "m2"}

\* Address strings, as sequences of characters.
AddrT == <<"2", "t">>
AddrM == <<"3", "m">>
AddrX == <<"2", "!">>
AddrStrings == {AddrT, AddrM, AddrX}
AddrLists == SeqsUpTo(AddrStrings, MaxAddrs)

\* bdk_reserves::challenge_txin: the commitment outpoint of a message.
ChallengeTxin(message) ==
    [previous_output |->
        Outpoint(IF message = "m1" THEN "h1" ELSE "h2", 0)]

\* The outpoints the reserve inputs of the proofs are drawn from: the two
\* outputs of ta, resolved or absent according to the addresses, the network
\* and the threshold of the request.
ReserveOutpoints == {Outpoint("ta", 0), Outpoint("ta", 1)}

PsbtInput(op, signed) == [previous_output |-> op, signed |-> signed]

\* The inputs of a well-formed proof: a commitment input and up to MaxInputs
\* reserve inputs; at most one input (0-based position `bad`: the commitment
\* input or the last reserve input) is not validly signed.
ProofInputsOver(rs) ==
    { [i \in 1..(Len(rs) + 1) |->
          PsbtInput(IF i = 1 THEN c ELSE rs[i - 1], (i - 1) # bad)] :
        c \in {ChallengeTxin("m1").previous_output},
        bad \in {-1, 0, Len(rs)} }
ProofInputs ==
    UNION {ProofInputsOver(rs) : rs \in SeqsUpTo(ReserveOutpoints, MaxInputs)}

\* A proof string: whether it is base64 at all, and the bytes it encodes
\* (whether they carry the PSBT magic and structure, and the inputs).
ProofString(b64, magic, inputs) ==
    [b64 |-> b64, bytes |-> [magic |-> magic, inputs |-> inputs]]
ProofStrings ==
    {ProofString(FALSE, FALSE, <<>>), ProofString(TRUE, FALSE, <<>>),
     ProofString(TRUE, TRUE, <<>>)}
    \cup {ProofString(TRUE, TRUE, ins) : ins \in ProofInputs}

ProofOfReserves(addresses, message, proof_psbt) ==
    [addresses |-> addresses, message |-> message, proof_psbt |-> proof_psbt]

AllInputs ==
    {ProofOfReserves(a, m, p) : a \in AddrLists, m \in Messages, p \in ProofStrings}

\* ----------------------------------------------------------------- results
Ok(v) == [ok |-> TRUE, value |-> v, text |-> "", args |-> <<>>]
Err(text, args) == [ok |-> FALSE, value |-> 0, text |-> text, args |-> args]

\* ---------------------------------------------------- library operations
\* base64::decode
Base64Decode(s) ==
    IF s.b64 THEN Ok(s.bytes) ELSE Err("Base64 decode error", <<>>)

\* bitcoin::consensus::encode::deserialize::<PartiallySignedTransaction>
Deserialize(bytes) ==
    IF bytes.magic /\ Len(bytes.inputs) >= 1
    THEN Ok([inputs |-> bytes.inputs])
    ELSE Err("PSBT deserialization error", <<>>)

\* Address::from_str, and the script the address pays to
AddressFromStr(a) ==
    IF a = AddrT THEN Ok("sT")
    ELSE IF a = AddrM THEN Ok("sM")
    ELSE Err("Invalid address", <<>>)

\* The 1-based position in `outpoints` of the first record of outpoint op,
\* 0 when there is none.
FindOutpoint(outpoints, op) ==
    LET hits == {j \in 1..Len(outpoints) : outpoints[j].outpoint = op}
    IN  IF hits = {} THEN 0 ELSE Min(hits)

RECURSIVE SumMatched(_, _, _, _)
\* Reserve inputs from (1-based) i on: the values of the records they match,
\* a record counted once however many inputs reference it.
SumMatched(inputs, outpoints, i, consumed) ==
    IF i > Len(inputs) THEN 0
    ELSE LET j == FindOutpoint(outpoints, inputs[i].previous_output)
         IN  IF j = 0 \/ j \in consumed
             THEN SumMatched(inputs, outpoints, i + 1, consumed)
             ELSE outpoints[j].txout.value
                  + SumMatched(inputs, outpoints, i + 1, consumed \cup {j})

\* bdk_reserves::reserves::verify_proof; input positions are reported 0-based.
verify_proof(psbt, message, outpoints, network) ==
    LET ins == psbt.inputs
        absent == {i \in 2..Len(ins) :
                      FindOutpoint(outpoints, ins[i].previous_output) = 0}
        unsigned == {i \in 1..Len(ins) : ~ins[i].signed}
    IN  IF ins[1].previous_output # ChallengeTxin(message).previous_output
        THEN Err("MessageMismatch", <<>>)
        ELSE IF absent # {} THEN Err("NonSpendableInput", <<Min(absent) - 1>>)
        ELSE IF unsigned # {} THEN Err("InvalidSignature", <<Min(unsigned) - 1>>)
        ELSE Ok(SumMatched(ins, outpoints, 2, {}))

\* ------------------------------------------------------------------- state
VARIABLES
    main_pc,        \* where main() is: "reset_invalid", "reset_success", "serving"
    POR_SUCCESS_COUNTER,
    POR_INVALID_COUNTER,
    overflow_checks, \* whether the build panics on arithmetic overflow
    tip,            \* the height the Electrum servers report (both chains
                    \* are taken to be equally long)
    req             \* per request, the handler's position and locals

vars == <<main_pc, POR_SUCCESS_COUNTER, POR_INVALID_COUNTER, overflow_checks, tip, req>>

Requests == 1..NumRequests

NoItem == ProofOfReserves(<<>>, "", ProofString(FALSE, FALSE, <<>>))
NoResult == Err("", <<>>)
NoResponse == [status |-> 0, error |-> <<>>, spendable |-> <<>>]

\* A request not yet received.
Idle ==
    [pc |-> "idle", item |-> NoItem, psbt |-> [inputs |-> <<>>],
     network |-> "", server |-> "", current_block_height |-> 0,
     max_confirmation_height |-> 0, k |-> 0, script |-> "", pending |-> <<>>,
     outs |-> <<>>, outpoints_per_addr |-> <<>>, outpoints_combined |-> <<>>,
     calls |-> <<>>,
     proof_result |-> NoResult, response |-> NoResponse]

Init ==
    /\ main_pc = "reset_invalid"
    /\ POR_SUCCESS_COUNTER = 0
    /\ POR_INVALID_COUNTER = 0
    /\ overflow_checks \in BOOLEAN
    /\ tip \in (Confirmations - 1)..MaxHeight
    /\ req = [r \in Requests |-> Idle]

\* ------------------------------------------------------------------- main
\* main(): POR_INVALID_COUNTER.reset()
MainResetInvalid ==
    /\ main_pc = "reset_invalid"
    /\ POR_INVALID_COUNTER' = 0
    /\ main_pc' = "reset_success"
    /\ UNCHANGED <<POR_SUCCESS_COUNTER, overflow_checks, tip, req>>

\* main(): POR_SUCCESS_COUNTER.reset()
MainResetSuccess ==
    /\ main_pc = "reset_success"
    /\ POR_SUCCESS_COUNTER' = 0
    /\ main_pc' = "bind"
    /\ UNCHANGED <<POR_INVALID_COUNTER, overflow_checks, tip, req>>

\* main(): HttpServer::new(...).bind(address)?.run()
MainRun ==
    /\ main_pc = "bind"
    /\ main_pc' = "serving"
    /\ UNCHANGED <<POR_SUCCESS_COUNTER, POR_INVALID_COUNTER, overflow_checks, tip, req>>

\* ------------------------------------------------------------ environment
\* A block is mined.
AdvanceTip ==
    /\ tip < MaxHeight
    /\ tip' = tip + 1
    /\ UNCHANGED <<main_pc, POR_SUCCESS_COUNTER, POR_INVALID_COUNTER, overflow_checks, req>>

\* ------------------------------------------------------------- check_proof
Call(op, arg, ok) == [op |-> op, arg |-> arg, ok |-> ok]

\* Return, with the address list taken out of the request instead of cloned.
ReturnConsuming(st, result) ==
    [st EXCEPT !.pc = "respond", !.proof_result = result, !.item.addresses = <<>>]

\* The handler of request r leaves handle_ext_reserves with `result`.
Return(st, result) == [st EXCEPT !.pc = "respond", !.proof_result = result]

\* A panic unwinds the handler: nothing is answered, no counter is touched.
Panic(st) == [st EXCEPT !.pc = "panicked"]

\* The Electrum server never answers a call.  The client is made with
\* Client::new(server), with no timeout configured, and the calls are
\* synchronous: the handler waits, and no step of the code ends the wait.
Blocked(st) == [st EXCEPT !.pc = "blocked"]

\* POST /proof arrives with a JSON body taken from `items`: check_proof is
\* entered and calls handle_ext_reserves(message, proof_psbt, 3, addresses).
Receive(r, items) ==
    /\ main_pc = "serving"
    /\ req[r].pc = "idle"
    /\ \E item \in items :
          req' = [req EXCEPT ![r] = [@ EXCEPT !.pc = "decode", !.item = item]]
    /\ UNCHANGED <<main_pc, POR_SUCCESS_COUNTER, POR_INVALID_COUNTER, overflow_checks, tip>>

\* SelectServer, deciding from the last address of the list.
SelectServerLast(addresses) ==
    IF Len(addresses[Len(addresses)]) > 0 /\ addresses[Len(addresses)][1] = "2"
    THEN [server |-> "ssl://electrum.blockstream.info:60002", network |-> "Testnet"]
    ELSE [server |-> "ssl://electrum.blockstream.info:50002", network |-> "Bitcoin"]

\* The Electrum server and the network, from the first address.
SelectServer(addresses) ==
    IF Len(addresses[1]) > 0 /\ addresses[1][1] = "2"
    THEN [server |-> "ssl://electrum.blockstream.info:60002", network |-> "Testnet"]
    ELSE [server |-> "ssl://electrum.blockstream.info:50002", network |-> "Bitcoin"]

\* DecodeStep, with the empty address list checked before the proof is decoded.
DecodeStepAddressesFirst(st) ==
    LET bytes == Base64Decode(st.item.proof_psbt)
        psbt == Deserialize(bytes.value)
        sel == SelectServer(st.item.addresses)
    IN  IF st.item.addresses = <<>> THEN Return(st, Err("No address provided", <<>>))
        ELSE IF ~bytes.ok THEN Return(st, Err("Base64 decode error", <<>>))
        ELSE IF ~psbt.ok THEN Return(st, Err("PSBT deserialization error", <<>>))
        ELSE [st EXCEPT !.pc = "client", !.psbt = psbt.value,
                        !.server = sel.server, !.network = sel.network]

\* DecodeStep, with the base64 failure given the message of the PSBT failure.
DecodeStepWrongLabel(st) ==
    LET bytes == Base64Decode(st.item.proof_psbt)
        psbt == Deserialize(bytes.value)
        sel == SelectServer(st.item.addresses)
    IN  IF ~bytes.ok THEN Return(st, Err("PSBT deserialization error", <<>>))
        ELSE IF ~psbt.ok THEN Return(st, Err("PSBT deserialization error", <<>>))
        ELSE IF st.item.addresses = <<>> THEN Return(st, Err("No address provided", <<>>))
        ELSE [st EXCEPT !.pc = "client", !.psbt = psbt.value,
                        !.server = sel.server, !.network = sel.network]

\* handle_ext_reserves up to the choice of the server: base64, PSBT, the
\* empty address list, the network.
DecodeStep(st) ==
    LET bytes == Base64Decode(st.item.proof_psbt)
        psbt == Deserialize(bytes.value)
        sel == SelectServer(st.item.addresses)
    IN  IF ~bytes.ok THEN Return(st, Err("Base64 decode error", <<>>))
        ELSE IF ~psbt.ok THEN Return(st, Err("PSBT deserialization error", <<>>))
        ELSE IF st.item.addresses = <<>> THEN Return(st, Err("No address provided", <<>>))
        ELSE [st EXCEPT !.pc = "client", !.psbt = psbt.value,
                        !.server = sel.server, !.network = sel.network]

Decode(r) ==
    /\ req[r].pc = "decode"
    /\ req' = [req EXCEPT ![r] = DecodeStep(@)]
    /\ UNCHANGED <<main_pc, POR_SUCCESS_COUNTER, POR_INVALID_COUNTER, overflow_checks, tip>>

\* Client::new(server)
ClientNewStep(st, ok) ==
    LET logged == [st EXCEPT !.calls = Append(@, Call("Client::new", st.server, ok))]
    IN  IF ok THEN [logged EXCEPT !.pc = "height"]
        ELSE Return(logged, Err("Failed to create Electrum client", <<>>))

ClientNew(r) ==
    /\ req[r].pc = "client"
    /\ \/ \E ok \in BOOLEAN : req' = [req EXCEPT ![r] = ClientNewStep(@, ok)]
       \/ req' = [req EXCEPT ![r] = Blocked(@)]
    /\ UNCHANGED <<main_pc, POR_SUCCESS_COUNTER, POR_INVALID_COUNTER, overflow_checks, tip>>

\* current_block_height - confirmations, in usize, overflow checks off
MaxConfirmationHeight(current_block_height, confirmations) ==
    (current_block_height - confirmations) % UsizeModulus

\* client.block_headers_subscribe(), then the confirmation threshold
BlockHeightStep(st, ok, height, checks) ==
    LET logged == [st EXCEPT !.calls = Append(@, Call("block_headers_subscribe", "", ok))]
    IN  IF ~ok THEN Return(logged, Err("Failed to get block height", <<>>))
        ELSE IF checks /\ height < Confirmations
             THEN Panic([logged EXCEPT !.current_block_height = height])
        ELSE [logged EXCEPT !.pc = "address", !.k = 1,
                            !.current_block_height = height,
                            !.max_confirmation_height =
                                MaxConfirmationHeight(height, Confirmations)]

BlockHeadersSubscribe(r) ==
    /\ req[r].pc = "height"
    /\ \/ \E ok \in BOOLEAN :
             req' = [req EXCEPT ![r] =
                       BlockHeightStep(@, ok, tip, overflow_checks)]
       \/ req' = [req EXCEPT ![r] = Blocked(@)]
    /\ UNCHANGED <<main_pc, POR_SUCCESS_COUNTER, POR_INVALID_COUNTER, overflow_checks, tip>>

\* get_outpoints_for_address: the unspent outputs the filter keeps
Retained(unspents, max_confirmation_height) ==
    SelectSeq(unspents,
              LAMBDA utxo : utxo.height > 0 /\ utxo.height <= max_confirmation_height)

\* AddressDone, going on to the verifier after whichever address was resolved.
AddressDoneFirstOnly(st) ==
    [st EXCEPT !.outpoints_per_addr = Append(@, st.outs),
               !.outs = <<>>, !.script = "", !.pc = "verify"]

\* The address at position k is done: on to the next one, or to the verifier.
AddressDone(st) ==
    LET st2 == [st EXCEPT !.outpoints_per_addr = Append(@, st.outs),
                          !.outs = <<>>, !.script = ""]
    IN  IF st.k = Len(st.item.addresses)
        THEN [st2 EXCEPT !.pc = "verify"]
        ELSE [st2 EXCEPT !.pc = "address", !.k = st.k + 1]

\* AddressStep, with an address that does not parse skipped, not reported.
AddressStepSkipInvalid(st, ok) ==
    LET address == AddressFromStr(st.item.addresses[st.k])
        logged == [st EXCEPT !.calls =
                      Append(@, Call("script_list_unspent", address.value, ok))]
        kept == Retained(Unspent(st.network, address.value), st.max_confirmation_height)
        listed == [logged EXCEPT !.script = address.value, !.pending = kept]
    IN  IF ~address.ok THEN AddressDone(st)
        ELSE IF ~ok THEN Return(logged, Err("IOError", <<>>))
        ELSE IF kept = <<>> THEN AddressDone(listed)
        ELSE [listed EXCEPT !.pc = "txget"]

\* AddressStep, with the threshold taken from the height of the chain at the
\* time the address is resolved.
AddressStepFreshHeight(st, ok) ==
    LET address == AddressFromStr(st.item.addresses[st.k])
        logged == [st EXCEPT !.calls =
                      Append(@, Call("script_list_unspent", address.value, ok))]
        kept == Retained(Unspent(st.network, address.value),
                         MaxConfirmationHeight(tip, Confirmations))
        listed == [logged EXCEPT !.script = address.value, !.pending = kept]
    IN  IF ~address.ok THEN Return(st, Err("Invalid address", <<>>))
        ELSE IF ~ok THEN Return(logged, Err("IOError", <<>>))
        ELSE IF kept = <<>> THEN AddressDone(listed)
        ELSE [listed EXCEPT !.pc = "txget"]

\* The closure of handle_ext_reserves for the address at position k:
\* Address::from_str, then script_list_unspent and the filter.
AddressStep(st, ok) ==
    LET address == AddressFromStr(st.item.addresses[st.k])
        logged == [st EXCEPT !.calls =
                      Append(@, Call("script_list_unspent", address.value, ok))]
        kept == Retained(Unspent(st.network, address.value), st.max_confirmation_height)
        listed == [logged EXCEPT !.script = address.value, !.pending = kept]
    IN  IF ~address.ok THEN Return(st, Err("Invalid address", <<>>))
        ELSE IF ~ok THEN Return(logged, Err("IOError", <<>>))
        ELSE IF kept = <<>> THEN AddressDone(listed)
        ELSE [listed EXCEPT !.pc = "txget"]

ResolveAddress(r) ==
    /\ req[r].pc = "address"
    /\ \/ \E ok \in BOOLEAN : req' = [req EXCEPT ![r] = AddressStep(@, ok)]
       \/ /\ AddressFromStr(req[r].item.addresses[req[r].k]).ok
          /\ req' = [req EXCEPT ![r] = Blocked(@)]
    /\ UNCHANGED <<main_pc, POR_SUCCESS_COUNTER, POR_INVALID_COUNTER, overflow_checks, tip>>

\* TransactionGetStep, with an output whose transaction cannot be fetched
\* left out of the list, not reported.
TransactionGetStepSwallow(st, ok) ==
    LET utxo == Head(st.pending)
        tx == Transactions[utxo.tx_hash]
        logged == [st EXCEPT !.calls = Append(@, Call("transaction_get", utxo.tx_hash, ok))]
        pair == [outpoint |-> Outpoint(utxo.tx_hash, utxo.tx_pos),
                 txout |-> tx[utxo.tx_pos + 1]]
        got == IF ok THEN [logged EXCEPT !.outs = Append(@, pair), !.pending = Tail(@)]
               ELSE [logged EXCEPT !.pending = Tail(@)]
    IN  IF ok /\ utxo.tx_pos >= Len(tx) THEN Panic(logged)
        ELSE IF got.pending = <<>> THEN AddressDone(got)
        ELSE got

\* get_outpoints_for_address, the map closure for the next retained output:
\* transaction_get, then tx.output[tx_pos].
TransactionGetStep(st, ok) ==
    LET utxo == Head(st.pending)
        tx == Transactions[utxo.tx_hash]
        logged == [st EXCEPT !.calls = Append(@, Call("transaction_get", utxo.tx_hash, ok))]
        pair == [outpoint |-> Outpoint(utxo.tx_hash, utxo.tx_pos),
                 txout |-> tx[utxo.tx_pos + 1]]
        got == [logged EXCEPT !.outs = Append(@, pair), !.pending = Tail(@)]
    IN  IF ~ok THEN Return(logged, Err("IOError", <<>>))
        ELSE IF utxo.tx_pos >= Len(tx) THEN Panic(logged)
        ELSE IF got.pending = <<>> THEN AddressDone(got)
        ELSE got

TransactionGet(r) ==
    /\ req[r].pc = "txget"
    /\ \/ \E ok \in BOOLEAN : req' = [req EXCEPT ![r] = TransactionGetStep(@, ok)]
       \/ req' = [req EXCEPT ![r] = Blocked(@)]
    /\ UNCHANGED <<main_pc, POR_SUCCESS_COUNTER, POR_INVALID_COUNTER, overflow_checks, tip>>

RECURSIVE OutpointsCombinedPrepend(_)
\* The fold, with each address's records put in front of the earlier ones.
OutpointsCombinedPrepend(outpoints_per_addr) ==
    IF outpoints_per_addr = <<>> THEN <<>>
    ELSE OutpointsCombinedPrepend(Tail(outpoints_per_addr)) \o Head(outpoints_per_addr)

\* The fold, with each address's records replacing the earlier ones.
OutpointsCombinedLast(outpoints_per_addr) ==
    IF outpoints_per_addr = <<>> THEN <<>>
    ELSE outpoints_per_addr[Len(outpoints_per_addr)]

\* The fold of outpoints_per_addr into outpoints_combined
OutpointsCombined(outpoints_per_addr) == Flatten(outpoints_per_addr)

\* The verifier has returned `spendable` for the list `combined`.
AfterVerify(st, combined, spendable) ==
    Return([st EXCEPT !.outpoints_combined = combined,
                      !.calls = Append(@, Call("verify_proof", st.network, spendable.ok))],
           spendable)

\* VerifyStep, with a fixed message handed to the verifier.
VerifyStepFixedMessage(st) ==
    LET combined == OutpointsCombined(st.outpoints_per_addr)
    IN  AfterVerify(st, combined, verify_proof(st.psbt, "m1", combined, st.network))

\* VerifyStep, with the verifier's error replaced by a generic one.
VerifyStepGeneric(st) ==
    LET combined == OutpointsCombined(st.outpoints_per_addr)
        spendable == verify_proof(st.psbt, st.item.message, combined, st.network)
    IN  IF spendable.ok THEN AfterVerify(st, combined, spendable)
        ELSE [AfterVerify(st, combined, spendable) EXCEPT !.proof_result = Err("invalid", <<>>)]

RECURSIVE TotalPerAddress(_, _, _, _)
\* The proof verified against the records of each address in turn, the
\* totals added; the first error if there is one.
TotalPerAddress(psbt, message, outpoints_per_addr, network) ==
    IF outpoints_per_addr = <<>> THEN Ok(0)
    ELSE LET first == verify_proof(psbt, message, Head(outpoints_per_addr), network)
             rest == TotalPerAddress(psbt, message, Tail(outpoints_per_addr), network)
         IN  IF ~first.ok THEN first
             ELSE IF ~rest.ok THEN rest
             ELSE Ok(first.value + rest.value)

\* VerifyStep, with the verifier called for each address and the totals added.
VerifyStepPerAddress(st) ==
    AfterVerify(st, OutpointsCombined(st.outpoints_per_addr),
                TotalPerAddress(st.psbt, st.item.message, st.outpoints_per_addr,
                                st.network))

\* verify_proof(&psbt, message, outpoints_combined, network), its error
\* formatted with {:?}, its total wrapped in {"spendable": total}
VerifyStep(st) ==
    LET combined == OutpointsCombined(st.outpoints_per_addr)
    IN  AfterVerify(st, combined,
                  verify_proof(st.psbt, st.item.message, combined, st.network))

Verify(r) ==
    /\ req[r].pc = "verify"
    /\ req' = [req EXCEPT ![r] = VerifyStep(@)]
    /\ UNCHANGED <<main_pc, POR_SUCCESS_COUNTER, POR_INVALID_COUNTER, overflow_checks, tip>>

\* inc, with the counter set to one instead of incremented.
IncSet(counter) == 1

\* IntCounter::inc
Inc(counter) == counter + 1

\* The body check_proof answers with: {"error": e} or {"spendable": total}
Answer(proof_result) ==
    IF proof_result.ok
    THEN [status |-> 200, error |-> <<>>, spendable |-> <<proof_result.value>>]
    ELSE [status |-> 200, spendable |-> <<>>,
          error |-> <<[text |-> proof_result.text, args |-> proof_result.args]>>]

\* Counted, with the two arms of the match exchanged.
CountedSwapped(proof_result, success, invalid) ==
    IF proof_result.ok
    THEN [success |-> success, invalid |-> Inc(invalid)]
    ELSE [success |-> Inc(success), invalid |-> invalid]

\* The match of check_proof on proof_result: which counter is incremented.
\* The new values of (POR_SUCCESS_COUNTER, POR_INVALID_COUNTER).
Counted(proof_result, success, invalid) ==
    IF proof_result.ok
    THEN [success |-> Inc(success), invalid |-> invalid]
    ELSE [success |-> success, invalid |-> Inc(invalid)]

\* check_proof after handle_ext_reserves returned: the counter, the response.
Respond(r) ==
    /\ req[r].pc = "respond"
    /\ LET c == Counted(req[r].proof_result, POR_SUCCESS_COUNTER, POR_INVALID_COUNTER)
       IN  /\ POR_SUCCESS_COUNTER' = c.success
           /\ POR_INVALID_COUNTER' = c.invalid
    /\ req' = [req EXCEPT ![r] = [@ EXCEPT !.pc = "done",
                                            !.response = Answer(req[r].proof_result)]]
    /\ UNCHANGED <<main_pc, overflow_checks, tip>>

\* ------------------------------------------------------------ specifications
Handle(r) ==
    \/ Decode(r)
    \/ ClientNew(r)
    \/ BlockHeadersSubscribe(r)
    \/ ResolveAddress(r)
    \/ TransactionGet(r)
    \/ Verify(r)
    \/ Respond(r)

Main == MainResetInvalid \/ MainResetSuccess \/ MainRun

\* One request, any body.
Next ==
    \/ Main
    \/ AdvanceTip
    \/ Receive(1, AllInputs)
    \/ Handle(1)

Spec == Init /\ [][Next]_vars

\* The bodies the concurrent clients of SpecServer send: a proof of ta:0 for
\* the Testnet address, one of tb:0 for the Bitcoin address, and a request
\* with no address and a proof that is not base64.
ServeInputs ==
    {ProofOfReserves(<<AddrT>>, "m1",
        ProofString(TRUE, TRUE,
            <<PsbtInput(ChallengeTxin("m1").previous_output, TRUE),
              PsbtInput(Outpoint("ta", 0), TRUE)>>)),
     ProofOfReserves(<<AddrM>>, "m1",
        ProofString(TRUE, TRUE,
            <<PsbtInput(ChallengeTxin("m1").previous_output, TRUE),
              PsbtInput(Outpoint("tb", 0), TRUE)>>)),
     ProofOfReserves(<<>>, "m2", ProofString(FALSE, FALSE, <<>>))}

\* The server: NumRequests requests, handled concurrently by the workers,
\* against one snapshot of the chain (no block is mined meanwhile).
NextServer ==
    \/ Main
    \/ \E r \in Requests : Receive(r, ServeInputs) \/ Handle(r)

SpecServer == Init /\ [][NextServer]_vars

\* ------------------------------------------------------------------ claims
\* handle_ext_reserves has returned to check_proof.
Returned(r) == req[r].pc \in {"respond", "done"}

\* handle_ext_reserves of request r called the verifier.
Verified(r) ==
    Returned(r) /\ \E i \in 1..Len(req[r].calls) : req[r].calls[i].op = "verify_proof"

\* The records the resolver produced for request r, over all its addresses.
Resolved(r) ==
    UNION {{req[r].outpoints_per_addr[a][j] : j \in 1..Len(req[r].outpoints_per_addr[a])} :
             a \in 1..Len(req[r].outpoints_per_addr)}
ResolvedOutpoints(r) == {rec.outpoint : rec \in Resolved(r)}

\* 1-based positions of the reserve inputs of r's proof
ReserveInputs(r) == 2..Len(req[r].psbt.inputs)

CommitmentMatches(r) ==
    req[r].psbt.inputs[1].previous_output
        = Outpoint(IF req[r].item.message = "m1" THEN "h1" ELSE "h2", 0)

AbsentInputs(r) ==
    {i \in ReserveInputs(r) : req[r].psbt.inputs[i].previous_output \notin ResolvedOutpoints(r)}

AllSigned(r) == \A i \in 1..Len(req[r].psbt.inputs) : req[r].psbt.inputs[i].signed

\* The value the chain gives an outpoint.
ValueOf(op) == Transactions[op.txid][op.vout + 1].value

RECURSIVE SumValues(_)
SumValues(ops) ==
    IF ops = {} THEN 0
    ELSE LET op == CHOOSE o \in ops : TRUE IN ValueOf(op) + SumValues(ops \ {op})

MatchedOutpoints(r) ==
    {req[r].psbt.inputs[i].previous_output : i \in ReserveInputs(r)} \cap ResolvedOutpoints(r)

\* C1: when the verifier ran on a proof whose commitment input matches the
\* message, whose reserve inputs are all among the resolved records and whose
\* inputs are all validly signed, the result is the spendable total, the sum of
\* the values of the matched outputs, and the response carries that total.
C1_SpendableTotal ==
    \A r \in Requests :
        (Verified(r) /\ CommitmentMatches(r) /\ AbsentInputs(r) = {} /\ AllSigned(r))
        => /\ req[r].proof_result = Ok(SumValues(MatchedOutpoints(r)))
           /\ (req[r].pc = "done"
                  => req[r].response.spendable = <<SumValues(MatchedOutpoints(r))>>)

\* A proof of both outputs of ta, resolved through one address, answered 12.
C1_Witness ==
    \E r \in Requests :
        /\ req[r].pc = "done"
        /\ Verified(r) /\ CommitmentMatches(r) /\ AbsentInputs(r) = {} /\ AllSigned(r)
        /\ Cardinality(MatchedOutpoints(r)) = 2
        /\ req[r].response.spendable = <<12>>

\* C2: when the verifier ran on a proof whose input 0 is not the commitment
\* outpoint of the message, the result is MessageMismatch, whatever the
\* reserve inputs and the signatures are.
C2_MessageMismatch ==
    \A r \in Requests :
        (Verified(r) /\ ~CommitmentMatches(r))
        => req[r].proof_result = Err("MessageMismatch", <<>>)

\* A mismatching proof with an absent reserve input and an unsigned input.
C2_Witness ==
    \E r \in Requests :
        /\ Verified(r) /\ ~CommitmentMatches(r)
        /\ AbsentInputs(r) # {} /\ ~AllSigned(r)
        /\ req[r].proof_result.text = "MessageMismatch"

\* C3: when the verifier ran on a proof with a matching commitment input and
\* some reserve input absent from the resolved records, the result is
\* NonSpendableInput(i), i the 0-based position of the first absent input.
C3_FirstNonSpendable ==
    \A r \in Requests :
        (Verified(r) /\ CommitmentMatches(r) /\ AbsentInputs(r) # {})
        => req[r].proof_result = Err("NonSpendableInput", <<Min(AbsentInputs(r)) - 1>>)

\* Input 1 is resolved, input 2 is not: NonSpendableInput(2).
C3_Witness ==
    \E r \in Requests :
        /\ Verified(r) /\ CommitmentMatches(r)
        /\ Len(req[r].psbt.inputs) = 3
        /\ AbsentInputs(r) = {3}
        /\ req[r].proof_result = Err("NonSpendableInput", <<2>>)

\* The proof string of r decodes: base64 of a PSBT with at least one input.
ProofDecodes(r) ==
    LET p == req[r].item.proof_psbt
    IN  p.b64 /\ p.bytes.magic /\ Len(p.bytes.inputs) >= 1

\* C4 as stated: an empty address list always fails with "No address
\* provided", whatever the proof.
C4_Original ==
    \A r \in Requests :
        (Returned(r) /\ req[r].item.addresses = <<>>)
        => req[r].proof_result = Err("No address provided", <<>>)

\* C4, amended: an empty address list fails with "No address provided" when
\* the proof decodes; when it does not, the decoding failure is reported.
C4_EmptyAddresses ==
    \A r \in Requests :
        (Returned(r) /\ req[r].item.addresses = <<>>)
        => req[r].proof_result =
              IF ProofDecodes(r) THEN Err("No address provided", <<>>)
              ELSE IF req[r].item.proof_psbt.b64
                   THEN Err("PSBT deserialization error", <<>>)
                   ELSE Err("Base64 decode error", <<>>)

C4_Witness ==
    \E r \in Requests :
        /\ req[r].pc = "done" /\ req[r].item.addresses = <<>> /\ ProofDecodes(r)
        /\ req[r].response.error = <<[text |-> "No address provided", args |-> <<>>]>>

\* The outpoints the resolver kept for the address at position a of request r.
KeptFor(r, a) ==
    {req[r].outpoints_per_addr[a][j].outpoint : j \in 1..Len(req[r].outpoints_per_addr[a])}

\* The unspent outputs of that address with 0 < height <= current height -
\* required confirmations, the difference taken in the integers.
ConfirmedFor(r, a) ==
    LET script == AddressFromStr(req[r].item.addresses[a]).value
        listed == Unspent(req[r].network, script)
    IN  {Outpoint(listed[j].tx_hash, listed[j].tx_pos) :
            j \in {i \in 1..Len(listed) :
                     /\ listed[i].height > 0
                     /\ listed[i].height <= req[r].current_block_height - Confirmations}}

\* C6: for every resolved address, the resolver keeps exactly the unspent
\* outputs whose confirmation height h satisfies
\* 0 < h <= current height - required confirmations.
C6_RetainedIffConfirmed ==
    \A r \in Requests :
        \A a \in 1..Len(req[r].outpoints_per_addr) : KeptFor(r, a) = ConfirmedFor(r, a)

\* 1-based positions of the addresses of r that do not parse
InvalidPositions(r) ==
    {k \in 1..Len(req[r].item.addresses) : ~AddressFromStr(req[r].item.addresses[k]).ok}

C10_DecodeFailures ==
    \A r \in Requests :
        (Returned(r) /\ ~ProofDecodes(r))
        => /\ req[r].proof_result =
                 IF req[r].item.proof_psbt.b64
                 THEN Err("PSBT deserialization error", <<>>)
                 ELSE Err("Base64 decode error", <<>>)
           /\ req[r].calls = <<>>
           /\ req[r].outpoints_per_addr = <<>>

\* A PSBT with no input, sent with an address: the deserialization error.
C10_Witness ==
    \E r \in Requests :
        /\ req[r].pc = "done"
        /\ req[r].item.proof_psbt = ProofString(TRUE, TRUE, <<>>)
        /\ req[r].item.addresses # <<>>
        /\ req[r].response.error = <<[text |-> "PSBT deserialization error", args |-> <<>>]>>

\* ------------------------------------------------ claims about the server
Completed == {r \in Requests : req[r].pc = "done"}

\* C5: the success counter counts the completed requests whose pipeline
\* returned a total, the invalid counter those whose pipeline failed; every
\* response is a 200 with exactly one of "error" and "spendable".
C5_OneCounterPerRequest ==
    /\ POR_SUCCESS_COUNTER = Cardinality({r \in Completed : req[r].proof_result.ok})
    /\ POR_INVALID_COUNTER = Cardinality({r \in Completed : ~req[r].proof_result.ok})
    /\ \A r \in Completed :
          /\ req[r].response.status = 200
          /\ Len(req[r].response.error) + Len(req[r].response.spendable) = 1
          /\ req[r].proof_result.ok <=> (req[r].response.spendable # <<>>)

\* One request succeeded and one failed.
C5_Witness ==
    /\ POR_SUCCESS_COUNTER = 1
    /\ POR_INVALID_COUNTER = 1
    /\ \E r \in Completed : req[r].response.spendable = <<5>>
    /\ \E r \in Completed : req[r].response.error # <<>>

\* The answers the Electrum server gave request r.
ChainCalls(r) == SelectSeq(req[r].calls, LAMBDA c : c.op # "verify_proof")

Finished(r) == req[r].pc \in {"done", "panicked"}

\* C7: two finished requests with the same body that got the same answers
\* from the chain ended the same way, with the same result and response; and
\* no step of a handler changes the chain or the body of a request.
C7_SameResult ==
    \A r1, r2 \in Requests :
        (/\ Finished(r1) /\ Finished(r2)
         /\ req[r1].item = req[r2].item
         /\ ChainCalls(r1) = ChainCalls(r2))
        => /\ req[r1].pc = req[r2].pc
           /\ req[r1].proof_result = req[r2].proof_result
           /\ req[r1].response = req[r2].response

C7_NoHiddenMutation ==
    (\E r \in Requests : req'[r] # req[r])
    => /\ tip' = tip
       /\ \A r \in Requests : req[r].pc # "idle" => req'[r].item = req[r].item

\* C7: verification is idempotent: the same body against the same chain
\* answers gives the same result (C7_SameResult), and handling a request
\* changes neither the chain nor the request (C7_NoHiddenMutation).
C7_Idempotent == [](C7_SameResult) /\ [][C7_NoHiddenMutation]_vars

\* Two requests for the same proof got through the resolver and the verifier.
C7_Witness ==
    \E r1, r2 \in Requests :
        /\ r1 # r2
        /\ req[r1].pc = "done" /\ req[r2].pc = "done"
        /\ req[r1].item = req[r2].item
        /\ ChainCalls(r1) = ChainCalls(r2)
        /\ req[r1].response.spendable = <<5>>
        /\ POR_SUCCESS_COUNTER = 2

\* C8: whatever the interleaving, the two counters add up to the number of
\* completed requests; while the server serves, no counter decreases and
\* main does not run again; no request is accepted before both resets.
C8_SumIsCompleted ==
    POR_SUCCESS_COUNTER + POR_INVALID_COUNTER = Cardinality(Completed)

C8_NoRequestBeforeReset ==
    main_pc # "serving" => \A r \in Requests : req[r].pc = "idle"

C8_Monotone ==
    main_pc = "serving"
    => /\ main_pc' = "serving"
       /\ POR_SUCCESS_COUNTER' >= POR_SUCCESS_COUNTER
       /\ POR_INVALID_COUNTER' >= POR_INVALID_COUNTER

\* C8: no increment is lost and no counter decreases while requests are
\* served, and the counters are reset only before the first request.
C8_NoLostIncrement ==
    [](C8_SumIsCompleted /\ C8_NoRequestBeforeReset) /\ [][C8_Monotone]_vars

\* Two requests failed: the invalid counter was incremented twice.
C8_Witness ==
    /\ Cardinality(Completed) = 2
    /\ POR_INVALID_COUNTER = 2

\* ------------------------------------------- claims about the chain queries
\* The results of a failed chain query: the client could not be created, the
\* height could not be read, or a listing or a transaction could not be had.
ChainQueryErrors ==
    {Err("Failed to create Electrum client", <<>>),
     Err("Failed to get block height", <<>>),
     Err("IOError", <<>>)}

\* The positions of the failed chain queries in the calls of request r.
FailedQueries(r) ==
    {i \in 1..Len(req[r].calls) :
        req[r].calls[i].op # "verify_proof" /\ ~req[r].calls[i].ok}

\* C11: a failed chain query is the last call of its request: the request
\* has returned the error of that query, the verifier was not called, no
\* later query was made, and the response carries that one error and the
\* invalid counter, not the success counter, counted the request.
C11_ChainFailureEndsRequest ==
    \A r \in Requests :
        FailedQueries(r) # {}
        => /\ FailedQueries(r) = {Len(req[r].calls)}
           /\ Returned(r)
           /\ req[r].proof_result \in ChainQueryErrors
           /\ ~Verified(r)
           /\ req[r].outpoints_combined = <<>>
           /\ (req[r].pc = "done"
                  => /\ req[r].response.spendable = <<>>
                     /\ req[r].response.error =
                           <<[text |-> req[r].proof_result.text, args |-> <<>>]>>
                     /\ POR_INVALID_COUNTER >= 1)

\* The second transaction of the second address could not be fetched, after
\* one address and one output had been resolved: the request answered the
\* error.
C11_Witness ==
    \E r \in Requests :
        /\ req[r].pc = "done"
        /\ Len(req[r].outpoints_per_addr) = 1
        /\ Len(req[r].outs) = 1
        /\ req[r].calls[Len(req[r].calls)] = Call("transaction_get", "ta", FALSE)
        /\ req[r].response.error = <<[text |-> "IOError", args |-> <<>>]>>

\* The positions of the height queries in the calls of request r.
HeightQueries(r) ==
    {i \in 1..Len(req[r].calls) : req[r].calls[i].op = "block_headers_subscribe"}

\* The outpoints of the unspent outputs of address a of request r that the
\* filter keeps under the given threshold.
KeptUnder(r, a, threshold) ==
    LET script == AddressFromStr(req[r].item.addresses[a]).value
        kept == Retained(Unspent(req[r].network, script), threshold)
    IN  {Outpoint(kept[j].tx_hash, kept[j].tx_pos) : j \in 1..Len(kept)}

\* C12: a request queries the height at most once, before every query about
\* an address or a transaction, and the height it read is not above the tip;
\* every resolved address was filtered under the one threshold computed from
\* that height, also when the tip has advanced since.
C12_OneHeightPerRequest ==
    \A r \in Requests :
        /\ Cardinality(HeightQueries(r)) <= 1
        /\ \A i \in 1..Len(req[r].calls) :
              req[r].calls[i].op \in {"script_list_unspent", "transaction_get"}
              => \E h \in HeightQueries(r) : h < i /\ req[r].calls[h].ok
        /\ req[r].current_block_height <= tip
        /\ \A a \in 1..Len(req[r].outpoints_per_addr) :
              KeptFor(r, a) =
                 KeptUnder(r, a, MaxConfirmationHeight(req[r].current_block_height,
                                                       Confirmations))

\* Two addresses were resolved under the threshold of height 4 while the tip
\* is at 5: the second address kept what the first kept, not the output
\* that height 5 confirms.
C12_Witness ==
    \E r \in Requests :
        /\ req[r].item.addresses = <<AddrT, AddrT>>
        /\ Len(req[r].outpoints_per_addr) = 2
        /\ req[r].current_block_height = 4 /\ tip = 5
        /\ KeptFor(r, 1) = {Outpoint("ta", 0)}
        /\ KeptFor(r, 2) = {Outpoint("ta", 0)}
        /\ KeptUnder(r, 2, MaxConfirmationHeight(tip, Confirmations))
              = {Outpoint("ta", 0), Outpoint("ta", 1)}

\* Request r was received and has neither answered nor panicked.
InFlight(r) == req[r].pc \notin {"idle", "done", "panicked"}

\* C13: a request in flight always has a step to take towards its result: a
\* call that the Electrum server never answers is ended by a timeout and the
\* request goes on to report an error (a request that panics ends too,
\* without a result: C14, C19).
C13_NoCallBlocksForever ==
    \A r \in Requests : InFlight(r) => ENABLED Handle(r)

\* The handler of request r has left the fetch of a retained output whose
\* transaction the server returned and has no output at the recorded index
\* (the height read being no smaller than the required confirmations).
InconsistentOutput(r) ==
    /\ req[r].pc \in {"respond", "done", "panicked"}
    /\ req[r].current_block_height >= Confirmations
    /\ req[r].pending # <<>>
    /\ Head(req[r].pending).tx_pos >= Len(Transactions[Head(req[r].pending).tx_hash])
    /\ req[r].calls # <<>>
    /\ req[r].calls[Len(req[r].calls)]
          = Call("transaction_get", Head(req[r].pending).tx_hash, TRUE)

\* C14: when the server returned a transaction with no output at the
\* recorded index, the request has returned an error of the chain queries:
\* the handler has not panicked, and once it has answered the invalid counter
\* has counted the request.
C14_InconsistentDataIsAnError ==
    \A r \in Requests :
        InconsistentOutput(r)
        => /\ Returned(r)
           /\ req[r].proof_result \in ChainQueryErrors
           /\ (req[r].pc = "done" => POR_INVALID_COUNTER >= 1)

\* ------------------------------------------------ claims about the total
\* C15: a total the verifier returned is at most the sum of the values of
\* the distinct outpoints the reserve inputs match, and so at most the sum
\* over the distinct resolved outpoints: an outpoint that two inputs
\* reference, or that was resolved twice, is counted once.
C15_OutpointCountedOnce ==
    \A r \in Requests :
        (Verified(r) /\ req[r].proof_result.ok)
        => /\ req[r].proof_result.value <= SumValues(MatchedOutpoints(r))
           /\ req[r].proof_result.value <= SumValues(ResolvedOutpoints(r))
           /\ (req[r].pc = "done"
                  => req[r].response.spendable = <<req[r].proof_result.value>>)

\* Two inputs reference ta:0 and two addresses resolved to it (the list
\* holds it twice, and ta:1 twice): the total is 5, its value.
C15_Witness ==
    \E r \in Requests :
        /\ req[r].pc = "done"
        /\ Len(req[r].psbt.inputs) = 3
        /\ req[r].psbt.inputs[2].previous_output = Outpoint("ta", 0)
        /\ req[r].psbt.inputs[3].previous_output = Outpoint("ta", 0)
        /\ Len(req[r].outpoints_combined) = 4
        /\ req[r].outpoints_combined[1] = req[r].outpoints_combined[3]
        /\ req[r].response.spendable = <<5>>

\* ---------------------------------------------- claims about the network
\* The request has a decodable proof and some address, and was decoded.
Selected(r) ==
    /\ req[r].pc \notin {"idle", "decode"}
    /\ ProofDecodes(r)
    /\ req[r].item.addresses # <<>>

\* The network the first address of request r stands for.
FirstAddressNetwork(r) ==
    IF req[r].item.addresses[1][1] = "2" THEN "Testnet" ELSE "Bitcoin"

\* C16: the network and the server of a request are those of its first
\* address; the client is created for that server, every resolved address
\* was listed on that network, the verifier is called with that network;
\* and a request whose addresses all parse and whose queries all succeeded
\* reached the verifier, whatever networks its later addresses belong to.
C16_NetworkOfFirstAddress ==
    \A r \in Requests :
        Selected(r)
        => /\ req[r].network = FirstAddressNetwork(r)
           /\ req[r].server = IF FirstAddressNetwork(r) = "Testnet"
                               THEN "ssl://electrum.blockstream.info:60002"
                               ELSE "ssl://electrum.blockstream.info:50002"
           /\ \A i \in 1..Len(req[r].calls) :
                 /\ req[r].calls[i].op = "Client::new"
                       => req[r].calls[i].arg = req[r].server
                 /\ req[r].calls[i].op = "verify_proof"
                       => req[r].calls[i].arg = FirstAddressNetwork(r)
           /\ \A a \in 1..Len(req[r].outpoints_per_addr) :
                 KeptFor(r, a) \subseteq KeptUnder(r, a, UsizeMax)
           /\ (Returned(r) /\ InvalidPositions(r) = {} /\ FailedQueries(r) = {})
                 => Verified(r)

\* A Testnet address followed by a Bitcoin address: both were resolved on
\* Testnet, the second to the one output the Testnet server lists for it,
\* and the verifier was called for Testnet.
C16_Witness ==
    \E r \in Requests :
        /\ req[r].item.addresses = <<AddrT, AddrM>>
        /\ req[r].pc = "done"
        /\ Verified(r)
        /\ req[r].network = "Testnet"
        /\ Len(req[r].outpoints_per_addr) = 2
        /\ req[r].outpoints_per_addr[1] # <<>>
        /\ KeptFor(r, 2) = {Outpoint("tb", 0)}
        /\ req[r].calls[Len(req[r].calls)].arg = "Testnet"

\* ------------------------------------------ claims about the resolved list
\* The records of address a of request r: the unspent outputs the filter
\* keeps, in the order the server listed them, each with its output.
RecordsOf(r, a) ==
    LET script == AddressFromStr(req[r].item.addresses[a]).value
        kept == Retained(Unspent(req[r].network, script), req[r].max_confirmation_height)
    IN  [j \in 1..Len(kept) |->
            [outpoint |-> Outpoint(kept[j].tx_hash, kept[j].tx_pos),
             txout |-> Transactions[kept[j].tx_hash][kept[j].tx_pos + 1]]]

RECURSIVE RecordsFrom(_, _)
\* The records of the addresses of request r from position a on, in the
\* order of the address list.
RecordsFrom(r, a) ==
    IF a > Len(req[r].item.addresses) THEN <<>>
    ELSE RecordsOf(r, a) \o RecordsFrom(r, a + 1)

\* C17: the list the verifier was called with is the records of the first
\* address, then those of the second, and so on, each address's records in
\* the order the server listed them: none dropped, none moved, an outpoint
\* resolved for two addresses present twice.
C17_ConcatenationInOrder ==
    \A r \in Requests :
        Verified(r) => req[r].outpoints_combined = RecordsFrom(r, 1)

\* Two addresses, two records and one: the list has the three in that order.
C17_Witness ==
    \E r \in Requests :
        /\ Verified(r)
        /\ req[r].item.addresses = <<AddrT, AddrM>>
        /\ Len(req[r].outpoints_combined) = 3
        /\ req[r].outpoints_combined[1].outpoint = Outpoint("ta", 0)
        /\ req[r].outpoints_combined[2].outpoint = Outpoint("ta", 1)
        /\ req[r].outpoints_combined[3].outpoint = Outpoint("tb", 0)

\* The same address twice: its two records are in the list twice.
C17_WitnessTwice ==
    \E r \in Requests :
        /\ Verified(r)
        /\ req[r].item.addresses = <<AddrT, AddrT>>
        /\ Len(req[r].outpoints_combined) = 4
        /\ req[r].outpoints_combined[1] = req[r].outpoints_combined[3]
        /\ req[r].outpoints_combined[2] = req[r].outpoints_combined[4]

\* ---------------------------------------------- claims about the pipeline
\* The positions of the calls of the verifier in the calls of request r.
VerifierCalls(r) ==
    {i \in 1..Len(req[r].calls) : req[r].calls[i].op = "verify_proof"}

\* C18: a request whose proof does not decode or whose address list is
\* empty makes no call at all and, once decoded, has returned an error; the
\* verifier is called at most once, as the last call, after the client was
\* created, the height read, and every address of the list resolved with
\* every query answered.
C18_DecodeResolveVerify ==
    \A r \in Requests :
        /\ (req[r].pc # "idle" /\ (~ProofDecodes(r) \/ req[r].item.addresses = <<>>))
              => /\ req[r].calls = <<>>
                 /\ req[r].pc # "decode"
                       => (Returned(r) /\ ~req[r].proof_result.ok)
        /\ Cardinality(VerifierCalls(r)) <= 1
        /\ \A i \in VerifierCalls(r) :
              /\ i = Len(req[r].calls)
              /\ i >= 3
              /\ req[r].calls[1].op = "Client::new"
              /\ req[r].calls[2].op = "block_headers_subscribe"
              /\ \A j \in 1..(i - 1) : req[r].calls[j].ok
              /\ ProofDecodes(r)
              /\ InvalidPositions(r) = {}
              /\ Len(req[r].outpoints_per_addr) = Len(req[r].item.addresses)
              /\ Cardinality({j \in 1..i : req[r].calls[j].op = "script_list_unspent"})
                    = Len(req[r].item.addresses)

\* The verifier was called after two addresses were resolved, and failed:
\* its call is the last, and the request answered its error.
C18_Witness ==
    \E r \in Requests :
        /\ req[r].pc = "done"
        /\ Len(req[r].item.addresses) = 2
        /\ VerifierCalls(r) = {Len(req[r].calls)}
        /\ ~req[r].calls[Len(req[r].calls)].ok
        /\ req[r].response.error # <<>>

\* An undecodable proof with two addresses was answered without any call.
C18_WitnessNoCall ==
    \E r \in Requests :
        /\ req[r].pc = "done"
        /\ ~ProofDecodes(r)
        /\ Len(req[r].item.addresses) = 2
        /\ req[r].calls = <<>>

\* ---------------------------------------------- claims about the threshold
\* Request r has read the height of the chain.
HeightRead(r) == \E h \in HeightQueries(r) : req[r].calls[h].ok

\* C19: when the height a request read is smaller than the required
\* confirmations, the threshold is not above that height, no unspent output
\* is retained for any address, and the handler has not panicked.
C19_ThresholdNeverWraps ==
    \A r \in Requests :
        (HeightRead(r) /\ req[r].current_block_height < Confirmations)
        => /\ req[r].pc # "panicked"
           /\ req[r].max_confirmation_height <= req[r].current_block_height
           /\ req[r].pending = <<>> /\ req[r].outs = <<>>
           /\ \A a \in 1..Len(req[r].outpoints_per_addr) :
                 req[r].outpoints_per_addr[a] = <<>>

====
